---- MODULE Spec2Model ----
(***************************************************************************)
(* Model of sdkboil/deserializers.py: content-type dispatch, the JSON      *)
(* deserializer's schema-driven tree walk, the constructor-argument filter *)
(* and the form deserializer, run by two concurrent callers.               *)
(***************************************************************************)
EXTENDS Integers, Sequences, FiniteSets, TLC

(***************************************************************************)
(* RawValue: what json.loads produces.  Every node is a tagged record.     *)
(***************************************************************************)
Null == [k |-> "null"]
Bool(b) == [k |-> "bool", b |-> b]
Num(n) == [k |-> "num", n |-> n]
Str(s) == [k |-> "str", s |-> s]
Arr(a) == [k |-> "arr", a |-> a]
Obj(o) == [k |-> "obj", o |-> o]

\* The empty mapping {} and a one-entry mapping.
EmptyMap == [x \in {} |-> Null]

(***************************************************************************)
(* Outcome of a Python expression: a value, or a raised exception.         *)
(***************************************************************************)
Ok(v) == [ok |-> TRUE, v |-> v]
Raise(e) == [ok |-> FALSE, exc |-> e]

\* Placeholder for a Python None / a local that is not yet bound.
None == [k |-> "None", ok |-> FALSE]

(***************************************************************************)
(* Python built-in behaviour used by the code.                             *)
(***************************************************************************)
\* Iteration order of the keys of a parsed mapping (document order); the
\* documents below list their keys in this order.
KeyOrder ==
    << "self", "a", "b", "id", "x", "meta", "owner", "name", "extra",
       "doc", "items", "zz" >>

\* The characters of a str, as iterating it yields them.
Chars(s) ==
    CASE s = "a" -> << "a" >>
      [] s = "xy" -> << "x", "y" >>
      [] s = "1" -> << "1" >>
      [] s = "2" -> << "2" >>
      [] OTHER -> << s >>

\* `for x in v`: the sequence of values iteration yields, or TypeError.
Iter(v) ==
    CASE v.k = "arr" -> Ok(v.a)
      [] v.k = "obj" ->
            LET keys == SelectSeq(KeyOrder, LAMBDA key : key \in DOMAIN v.o)
            IN  Ok([i \in 1..Len(keys) |-> Str(keys[i])])
      [] v.k = "str" ->
            LET cs == Chars(v.s) IN Ok([i \in 1..Len(cs) |-> Str(cs[i])])
      [] OTHER -> Raise("TypeError")

\* d[key] with a str key when a mapping lacks the key: a default instead of
\* KeyError (the behaviour of d.get(key)).
GetItemDefault(d, key) ==
    IF d.k = "obj"
    THEN IF key \in DOMAIN d.o THEN Ok(d.o[key]) ELSE Ok(Null)
    ELSE Raise("TypeError")

\* d[key] with a str key: the value, KeyError when a mapping lacks the key,
\* TypeError when d is a list, a str, a number, a bool or None.
GetItem(d, key) ==
    IF d.k = "obj"
    THEN IF key \in DOMAIN d.o THEN Ok(d.o[key]) ELSE Raise("KeyError")
    ELSE Raise("TypeError")

\* d[key] = v with a str key, as the mapping after the store.
SetItem(d, key, v) ==
    IF d.k = "obj"
    THEN Ok(Obj([x \in (DOMAIN d.o) \cup {key} |-> IF x = key THEN v ELSE d.o[x]]))
    ELSE Raise("TypeError")

\* namespace.split('.'): the namespace is a sequence of tokens, "." being the
\* separator; each segment is the sequence of tokens between separators.
RECURSIVE split(_)
split(namespace) ==
    IF namespace = << >> THEN << << >> >>
    ELSE IF Head(namespace) = "." THEN << << >> >> \o split(Tail(namespace))
    ELSE LET rest == split(Tail(namespace))
         IN  << << Head(namespace) >> \o Head(rest) >> \o Tail(rest)

\* The str a segment stands for ("" for an empty segment).
SegmentKey(seg) == IF seg = << >> THEN "" ELSE seg[1]

(***************************************************************************)
(* Type metadata consumed by the deserializers (the SDK's object           *)
(* declarations): the class hierarchy issubclass() tests, the parameters   *)
(* of each __init__, and the declared sub_objects / elements_class.        *)
(***************************************************************************)
PlainClasses == {"Flat", "Item", "Owner", "Doc", "Order"}
CollectionClasses == {"Items", "Nested"}
OtherClasses == {"dict"}
Classes == PlainClasses \cup CollectionClasses \cup OtherClasses

\* A class slot that holds no class (None, or an abstract property object).
NoClass == "None"

\* issubclass(c, SdkCollectionObject) and issubclass(c, SdkObject), for a class c.
IsSdkCollectionObject(c) == c \in CollectionClasses \cup {"SdkCollectionObject"}
IsSdkObject(c) == c \in PlainClasses \cup CollectionClasses \cup {"SdkObject", "SdkCollectionObject"}

\* The keyword parameters each __init__ accepts, and those without a default.
Accepts(c) ==
    CASE c = "Flat" -> {"a"}
      [] c = "Item" -> {"id"}
      [] c = "Owner" -> {"name"}
      [] c = "Doc" -> {"meta"}
      [] c = "Order" -> {"doc", "items"}
      [] OTHER -> {"elements"}
Required(c) ==
    CASE c = "Flat" -> {"a"}
      [] c = "Item" -> {"id"}
      [] c = "Owner" -> {}
      [] c = "Doc" -> {"meta"}
      [] c = "Order" -> {"doc", "items"}
      [] OTHER -> {}

\* A declared sub-object: a nested class, or the one-element list marker [class].
Nested(c) == [list |-> FALSE, c |-> c]
ListOf(c) == [list |-> TRUE, c |-> c]

\* class_.sub_objects as declared, in declaration order.
DeclaredSubObjects ==
    [c \in PlainClasses \cup CollectionClasses |->
        CASE c = "Doc" ->
                << [namespace |-> << "meta", ".", "owner" >>, class_ |-> Nested("Owner")] >>
          [] c = "Order" ->
                << [namespace |-> << "doc" >>, class_ |-> Nested("Doc")],
                   [namespace |-> << "items" >>, class_ |-> ListOf("Item")] >>
          [] OTHER -> << >>]

\* class_.elements_class as declared by each collection class.
DeclaredElementsClass == [c \in CollectionClasses |-> IF c = "Items" THEN "Item" ELSE "Items"]

\* The values SdkCollectionObject.elements_class, the base class's own attribute,
\* may hold: no class at all, or some object class.
BaseElementsClasses == {NoClass, "Doc"}

\* The metadata a call reads: [sub_objects, elements_class].
Metadata(so, ec) == [sub_objects |-> so, elements_class |-> ec]

(***************************************************************************)
(* Instantiation: class_ called with keyword arguments, or with elements.  *)
(***************************************************************************)
Instance(class_, kw) == [k |-> "inst", cls |-> class_, kw |-> kw]

\* inspect.signature(class_.__init__).parameters: the names of the unbound
\* __init__, self included.
init_parameters(class_) == {"self"} \cup Accepts(class_)

\* class_ called with keyword arguments kwargs: TypeError for a second value for self, an unexpected
\* keyword or a missing required parameter.
Construct(class_, kwargs) ==
    IF "self" \in DOMAIN kwargs THEN Raise("TypeError")
    ELSE IF ~(DOMAIN kwargs \subseteq Accepts(class_)) THEN Raise("TypeError")
    ELSE IF ~(Required(class_) \subseteq DOMAIN kwargs) THEN Raise("TypeError")
    ELSE Ok(Instance(class_, kwargs))

\* class_(elements) for a collection class.
ConstructCollection(class_, elements) == Ok(Instance(class_, [elements |-> elements]))

(***************************************************************************)
(* _get_deserializer                                                       *)
(***************************************************************************)
APPLICATION_JSON == "application/json"
APPLICATION_FORM_URLENCODED == "application/x-www-form-urlencoded"

\* Python None as a content type.
NoContentType == "<None>"

\* `not content_type`
Falsy(content_type) == content_type \in {NoContentType, ""}

\* A selector that tests the form media type first and treats everything
\* else that is non-empty as JSON.
_get_deserializer_lenient(content_type) ==
    IF Falsy(content_type)
    THEN Raise("MissingContentTypeException")
    ELSE IF content_type = APPLICATION_FORM_URLENCODED THEN Ok("FormDeserializer")
    ELSE Ok("JsonDeserializer")

_get_deserializer(content_type) ==
    IF Falsy(content_type)
    THEN Raise("MissingContentTypeException")
    ELSE IF content_type = APPLICATION_JSON THEN Ok("JsonDeserializer")
    ELSE IF content_type = APPLICATION_FORM_URLENCODED THEN Ok("FormDeserializer")
    ELSE Raise("UnknownContentTypeException")

(***************************************************************************)
(* JsonDeserializer                                                        *)
(***************************************************************************)
\* `for param in dict_: if param in init_parameters: init_args[param] = dict_[param]`.
\* Testing membership of a list or a mapping raises TypeError (unhashable), and so
\* does indexing a list or a str with a str.
_get_init_args(class_, dict_) ==
    LET it == Iter(dict_)
    IN  IF ~it.ok THEN it
        ELSE LET params == it.v
                 unhashable == {i \in 1..Len(params) : params[i].k \in {"arr", "obj"}}
                 kept == {i \in 1..Len(params) :
                              params[i].k = "str" /\ params[i].s \in init_parameters(class_)}
             IN  IF unhashable # {} \/ (\E i \in kept : ~GetItem(dict_, params[i].s).ok)
                 THEN Raise("TypeError")
                 ELSE Ok([key \in {params[i].s : i \in kept} |-> GetItem(dict_, key).v])

RECURSIVE _deserialize_dict(_, _, _)
RECURSIVE _deserialize_array(_, _, _)
RECURSIVE resolve_path(_, _, _, _)
RECURSIVE sub_objects_from(_, _, _, _)
RECURSIVE list_of_dicts(_, _, _)

\* A _deserialize_dict that also reduces the mapping to the constructor
\* arguments of class_, at every level of the recursion.
_deserialize_dict_filtered(M, class_, dict_) ==
    IF class_ \notin DOMAIN M.sub_objects THEN Raise("AttributeError")
    ELSE LET r == sub_objects_from(M, M.sub_objects[class_], 1, dict_)
         IN  IF ~r.ok THEN r
             ELSE LET init_args == _get_init_args(class_, r.v)
                  IN  IF ~init_args.ok THEN init_args ELSE Ok(Obj(init_args.v))

\* The body of _deserialize_sub_object after the split: follow keys[:-1], then
\* replace the value at keys[-1] by its deserialized form, in place.
resolve_path(M, keys, class_, dict_) ==
    LET cur == GetItem(dict_, SegmentKey(Head(keys)))
    IN  IF ~cur.ok THEN cur
        ELSE LET sub == IF Len(keys) > 1
                        THEN resolve_path(M, Tail(keys), class_, cur.v)
                        ELSE IF class_.list
                        THEN _deserialize_array(M, class_.c, cur.v)
                        ELSE _deserialize_dict(M, class_.c, cur.v)
             IN  IF ~sub.ok THEN sub ELSE SetItem(dict_, SegmentKey(Head(keys)), sub.v)

_deserialize_sub_object(M, namespace, class_, dict_) ==
    resolve_path(M, split(namespace), class_, dict_)

\* The loop of _deserialize_dict from the i-th declared sub-object on.
sub_objects_from(M, subs, i, dict_) ==
    IF i > Len(subs) THEN Ok(dict_)
    ELSE LET r == _deserialize_sub_object(M, subs[i].namespace, subs[i].class_, dict_)
         IN  IF ~r.ok THEN r ELSE sub_objects_from(M, subs, i + 1, r.v)

_deserialize_dict(M, class_, dict_) ==
    IF class_ \notin DOMAIN M.sub_objects THEN Raise("AttributeError")
    ELSE sub_objects_from(M, M.sub_objects[class_], 1, dict_)

\* [_deserialize_dict(elements_class, el) for el in els]
list_of_dicts(M, elements_class, els) ==
    IF els = << >> THEN Ok(<< >>)
    ELSE LET h == _deserialize_dict(M, elements_class, Head(els))
         IN  IF ~h.ok THEN h
             ELSE LET t == list_of_dicts(M, elements_class, Tail(els))
                  IN  IF ~t.ok THEN t ELSE Ok(<< h.v >> \o t.v)

_deserialize_array(M, elements_class, array) ==
    IF elements_class = NoClass THEN Raise("TypeError")
    ELSE IF IsSdkCollectionObject(elements_class)
    THEN _deserialize_array(M, M.elements_class["SdkCollectionObject"], array)
    ELSE IF IsSdkObject(elements_class)
    THEN LET it == Iter(array)
         IN  IF ~it.ok THEN it
             ELSE LET r == list_of_dicts(M, elements_class, it.v)
                  IN  IF ~r.ok THEN r ELSE Ok(Arr(r.v))
    ELSE Ok(array)

(***************************************************************************)
(* The payloads the callers pass, and json.loads of each.                  *)
(***************************************************************************)
DocFlat == Obj(("a" :> Num(1)) @@ ("b" :> Num(2)))
DocItems == Arr(<< Obj(("id" :> Num(1)) @@ ("x" :> Num(9))), Obj("id" :> Num(2)) >>)
DocOwner == Obj(("name" :> Str("a")) @@ ("extra" :> Num(1)))
DocMeta == Obj("meta" :> Obj("owner" :> DocOwner))
DocOrder == Obj(("doc" :> DocMeta) @@ ("items" :> DocItems))

Texts ==
    { "{\"a\": 1, \"b\": 2}",
      "[{\"id\": 1, \"x\": 9}, {\"id\": 2}]",
      "{\"meta\": {\"owner\": {\"name\": \"a\", \"extra\": 1}}}",
      "{\"doc\": {\"meta\": {\"owner\": {\"name\": \"a\", \"extra\": 1}}}, \"items\": [{\"id\": 1, \"x\": 9}, {\"id\": 2}]}",
      "{\"doc\": {\"meta\": {\"owner\": {\"name\": \"a\", \"extra\": 1}}}}",
      "{\"owner\": {\"name\": \"a\"}}",
      "{\"meta\": {}}",
      "{\"meta\": [1]}",
      "{\"self\": 1, \"a\": 1}",
      "[]",
      "\"xy\"",
      "7",
      "true",
      "null",
      "{\"a\": 1" }

\* json.loads(json_string): the parsed tree, or JSONDecodeError.
json_loads(json_string) ==
    CASE json_string = "{\"a\": 1, \"b\": 2}" -> Ok(DocFlat)
      [] json_string = "[{\"id\": 1, \"x\": 9}, {\"id\": 2}]" -> Ok(DocItems)
      [] json_string = "{\"meta\": {\"owner\": {\"name\": \"a\", \"extra\": 1}}}" -> Ok(DocMeta)
      [] json_string = "{\"doc\": {\"meta\": {\"owner\": {\"name\": \"a\", \"extra\": 1}}}, \"items\": [{\"id\": 1, \"x\": 9}, {\"id\": 2}]}" ->
            Ok(DocOrder)
      [] json_string = "{\"doc\": {\"meta\": {\"owner\": {\"name\": \"a\", \"extra\": 1}}}}" ->
            Ok(Obj("doc" :> DocMeta))
      [] json_string = "{\"owner\": {\"name\": \"a\"}}" -> Ok(Obj("owner" :> Obj("name" :> Str("a"))))
      [] json_string = "{\"meta\": {}}" -> Ok(Obj("meta" :> Obj(EmptyMap)))
      [] json_string = "{\"meta\": [1]}" -> Ok(Obj("meta" :> Arr(<< Num(1) >>)))
      [] json_string = "{\"self\": 1, \"a\": 1}" -> Ok(Obj(("self" :> Num(1)) @@ ("a" :> Num(1))))
      [] json_string = "[]" -> Ok(Arr(<< >>))
      [] json_string = "\"xy\"" -> Ok(Str("xy"))
      [] json_string = "7" -> Ok(Num(7))
      [] json_string = "true" -> Ok(Bool(TRUE))
      [] json_string = "null" -> Ok(Null)
      [] OTHER -> Raise("JSONDecodeError")

\* The parsed key/value mappings handed to the form deserializer.
Forms ==
    { "a" :> Str("1"),
      ("a" :> Str("1")) @@ ("zz" :> Str("2")),
      "zz" :> Str("2"),
      "name" :> Str("a") }

\* deserialize as one sequential run (lines 45-52), for a call that runs alone.
deserialize(M, class_, json_string) ==
    LET json_data == json_loads(json_string)
    IN  IF ~json_data.ok THEN json_data
        ELSE IF IsSdkCollectionObject(class_)
        THEN LET elements == _deserialize_array(M, M.elements_class[class_], json_data.v)
             IN  IF ~elements.ok THEN elements ELSE ConstructCollection(class_, elements.v)
        ELSE IF IsSdkObject(class_)
        THEN LET dict_ == _deserialize_dict(M, class_, json_data.v)
             IN  IF ~dict_.ok THEN dict_
                 ELSE LET init_args == _get_init_args(class_, dict_.v)
                      IN  IF ~init_args.ok THEN init_args ELSE Construct(class_, init_args.v)
        ELSE Ok(json_data.v)

(***************************************************************************)
(* FormDeserializer                                                        *)
(***************************************************************************)
FormDeserializer_deserialize(raw, class_) == Construct(class_, raw)

(***************************************************************************)
(* The callers: each picks a deserializer by content type and runs it.     *)
(* JsonDeserializer.deserialize is split at the iterations of the          *)
(* top-level sub_objects loop, where another caller's steps may fall.      *)
(***************************************************************************)
\* The number of calls made in a run.
MaxCalls == 2

Procs == {1, 2}

ContentTypes ==
    { NoContentType, "", APPLICATION_JSON, APPLICATION_FORM_URLENCODED,
      "text/xml", "application/json; charset=utf-8" }

VARIABLES
    pc,         \* where each caller stands: idle, selected, dict, done
    frame,      \* each caller's locals
    result,     \* what each caller's call returned or raised
    metadata,   \* the class attributes sub_objects and elements_class
    calls       \* calls made so far

vars == << pc, frame, result, metadata, calls >>

NoFrame ==
    [ content_type |-> "", deserializer |-> "", class_ |-> NoClass,
      json_string |-> "", raw |-> None, json_data |-> None, i |-> 0,
      init_args |-> None ]

InitialMetadata(base) ==
    Metadata(DeclaredSubObjects,
             [c \in CollectionClasses \cup {"SdkCollectionObject"} |->
                 IF c = "SdkCollectionObject" THEN base ELSE DeclaredElementsClass[c]])

Init ==
    /\ pc = [p \in Procs |-> "idle"]
    /\ frame = [p \in Procs |-> NoFrame]
    /\ result = [p \in Procs |-> None]
    /\ \E base \in BaseElementsClasses : metadata = InitialMetadata(base)
    /\ calls = 0

\* The class attributes after one iteration of the sub_objects loop over
\* class_ has consumed entry i, as an implementation that pops what it has
\* processed would leave them.
sub_objects_popped(M, class_, i) ==
    [M EXCEPT !.sub_objects[class_] = SubSeq(@, 1, i - 1) \o SubSeq(@, i + 1, Len(@))]

\* The class attributes after one iteration of the sub_objects loop: the loop
\* reads class_.sub_objects and never stores to it.
sub_objects_after(M, class_, i) == M

\* _get_deserializer(content_type), called by p.
GetDeserializer(p) ==
    /\ pc[p] = "idle"
    /\ calls < MaxCalls
    /\ \E content_type \in ContentTypes :
          LET r == _get_deserializer(content_type)
          IN  /\ frame' = [frame EXCEPT ![p].content_type = content_type,
                                        ![p].deserializer = IF r.ok THEN r.v ELSE ""]
              /\ pc' = [pc EXCEPT ![p] = IF r.ok THEN "selected" ELSE "done"]
              /\ result' = [result EXCEPT ![p] = IF r.ok THEN None ELSE r]
    /\ calls' = calls + 1
    /\ UNCHANGED metadata

\* JsonDeserializer.deserialize(class_, json_string) up to the sub_objects
\* loop: json.loads, then the dispatch on the class.
JsonDeserialize(p) ==
    /\ pc[p] = "selected"
    /\ frame[p].deserializer = "JsonDeserializer"
    /\ \E class_ \in Classes, json_string \in Texts :
          LET json_data == json_loads(json_string)
              elements == _deserialize_array(metadata, metadata.elements_class[class_], json_data.v)
              loop == json_data.ok /\ ~IsSdkCollectionObject(class_) /\ IsSdkObject(class_)
          IN  /\ frame' = [frame EXCEPT ![p].class_ = class_,
                                        ![p].json_string = json_string,
                                        ![p].json_data = IF json_data.ok THEN json_data.v ELSE None,
                                        ![p].i = IF loop THEN 1 ELSE 0]
              /\ pc' = [pc EXCEPT ![p] = IF loop THEN "dict" ELSE "done"]
              /\ result' = [result EXCEPT ![p] =
                    IF ~json_data.ok THEN json_data
                    ELSE IF IsSdkCollectionObject(class_)
                    THEN IF ~elements.ok THEN elements
                         ELSE ConstructCollection(class_, elements.v)
                    ELSE IF IsSdkObject(class_) THEN None
                    ELSE Ok(json_data.v)]
    /\ UNCHANGED << metadata, calls >>

\* One iteration of the loop of the top-level _deserialize_dict.
DeserializeSubObject(p) ==
    /\ pc[p] = "dict"
    /\ frame[p].i <= Len(metadata.sub_objects[frame[p].class_])
    /\ LET sub == metadata.sub_objects[frame[p].class_][frame[p].i]
           r == _deserialize_sub_object(metadata, sub.namespace, sub.class_, frame[p].json_data)
       IN  /\ frame' = [frame EXCEPT ![p].json_data = IF r.ok THEN r.v ELSE @,
                                     ![p].i = @ + 1]
           /\ pc' = [pc EXCEPT ![p] = IF r.ok THEN "dict" ELSE "done"]
           /\ result' = [result EXCEPT ![p] = IF r.ok THEN None ELSE r]
    /\ metadata' = sub_objects_after(metadata, frame[p].class_, frame[p].i)
    /\ UNCHANGED calls

\* After the loop: _get_init_args, then class_ is called with init_args.
GetInitArgs(p) ==
    /\ pc[p] = "dict"
    /\ frame[p].i > Len(metadata.sub_objects[frame[p].class_])
    /\ LET init_args == _get_init_args(frame[p].class_, frame[p].json_data)
       IN  /\ frame' = [frame EXCEPT ![p].init_args = init_args]
           /\ result' = [result EXCEPT ![p] =
                 IF ~init_args.ok THEN init_args ELSE Construct(frame[p].class_, init_args.v)]
    /\ pc' = [pc EXCEPT ![p] = "done"]
    /\ UNCHANGED << metadata, calls >>

\* FormDeserializer.deserialize(raw, class_).
FormDeserialize(p) ==
    /\ pc[p] = "selected"
    /\ frame[p].deserializer = "FormDeserializer"
    /\ \E class_ \in PlainClasses, raw \in Forms :
          /\ frame' = [frame EXCEPT ![p].class_ = class_, ![p].raw = raw]
          /\ result' = [result EXCEPT ![p] = FormDeserializer_deserialize(raw, class_)]
    /\ pc' = [pc EXCEPT ![p] = "done"]
    /\ UNCHANGED << metadata, calls >>

\* The call is over: its locals and its parsed tree are discarded.
Return(p) ==
    /\ pc[p] = "done"
    /\ pc' = [pc EXCEPT ![p] = "idle"]
    /\ frame' = [frame EXCEPT ![p] = NoFrame]
    /\ result' = [result EXCEPT ![p] = None]
    /\ UNCHANGED << metadata, calls >>

Next ==
    \E p \in Procs :
        \/ GetDeserializer(p)
        \/ JsonDeserialize(p)
        \/ DeserializeSubObject(p)
        \/ GetInitArgs(p)
        \/ FormDeserialize(p)
        \/ Return(p)

Spec == Init /\ [][Next]_vars

(***************************************************************************)
(* Properties                                                              *)
(***************************************************************************)
Done(p) == pc[p] = "done"
JsonCall(p) == frame[p].deserializer = "JsonDeserializer" /\ frame[p].class_ # NoClass
FormCall(p) == frame[p].deserializer = "FormDeserializer" /\ frame[p].class_ # NoClass
Parsed(p) == json_loads(frame[p].json_string)

\* The keys a namespace names, outermost first.
PathKeys(namespace) == SelectSeq(namespace, LAMBDA t : t # ".")

\* The value a key path leads to inside a mapping.
RECURSIVE ValueAt(_, _)
ValueAt(d, keys) == IF keys = << >> THEN d ELSE ValueAt(d.o[Head(keys)], Tail(keys))

\* A key path some segment of which is absent from d, or leads through
\* something that is not a mapping.
RECURSIVE PathBroken(_, _)
PathBroken(d, keys) ==
    \/ d.k # "obj"
    \/ Head(keys) \notin DOMAIN d.o
    \/ Len(keys) > 1 /\ PathBroken(d.o[Head(keys)], Tail(keys))

\* C1: the constructor arguments of a plain object type are exactly the entries
\* of the sub-object-resolved raw mapping whose keys are constructor parameters
\* the type accepts: no other key is passed, and every such key is passed with
\* its value.
C1_ConstructorArgsAreDeclared ==
    \A p \in Procs :
        (frame[p].init_args.ok /\ frame[p].json_data.k = "obj") =>
            LET args == frame[p].init_args.v
                raw == frame[p].json_data.o
            IN  /\ DOMAIN args = (DOMAIN raw) \cap Accepts(frame[p].class_)
                /\ \A key \in DOMAIN args : args[key] = raw[key]

\* C2: the selector classifies every content type: the JSON media type gives
\* the JSON deserializer, the form media type the form deserializer, an empty
\* or absent one raises MissingContentType, any other UnsupportedContentType.
C2_SelectorIsTotal ==
    \A p \in Procs :
        pc[p] # "idle" =>
            LET content_type == frame[p].content_type
            IN  /\ content_type = APPLICATION_JSON =>
                       frame[p].deserializer = "JsonDeserializer"
                /\ content_type = APPLICATION_FORM_URLENCODED =>
                       frame[p].deserializer = "FormDeserializer"
                /\ content_type \in {NoContentType, ""} =>
                       Done(p) /\ result[p] = Raise("MissingContentTypeException")
                /\ content_type \notin
                       {NoContentType, "", APPLICATION_JSON, APPLICATION_FORM_URLENCODED} =>
                       Done(p) /\ result[p] = Raise("UnknownContentTypeException")
                /\ frame[p].deserializer # "" =>
                       content_type \in {APPLICATION_JSON, APPLICATION_FORM_URLENCODED}

C2_Witness ==
    \E p, q \in Procs :
        /\ frame[p].content_type = "application/json; charset=utf-8"
        /\ result[p] = Raise("UnknownContentTypeException")
        /\ frame[q].content_type = APPLICATION_FORM_URLENCODED
        /\ pc[q] = "selected"

\* C3: a collection of a plain element type, given a JSON array, yields one
\* element per entry, in order, and no yielded element has a key outside the
\* element type's constructor parameters.
C3_CollectionElementsFiltered ==
    \A p \in Procs :
        ( /\ Done(p) /\ JsonCall(p)
          /\ frame[p].class_ \in CollectionClasses
          /\ DeclaredElementsClass[frame[p].class_] \in PlainClasses
          /\ Parsed(p).ok /\ Parsed(p).v.k = "arr" ) =>
            /\ result[p].ok
            /\ LET els == result[p].v.kw.elements.a
                   src == Parsed(p).v.a
               IN  /\ Len(els) = Len(src)
                   /\ \A i \in 1..Len(els) :
                          /\ els[i].k = "obj"
                          /\ DOMAIN els[i].o \subseteq Accepts(DeclaredElementsClass[frame[p].class_])
                          /\ \A key \in DOMAIN els[i].o : els[i].o[key] = src[i].o[key]

\* C4: the value delivered at a nested sub-object path carries no key outside
\* the nested type's constructor parameters.
C4_NestedValueFiltered ==
    \A p \in Procs :
        (Done(p) /\ JsonCall(p) /\ frame[p].class_ \in PlainClasses /\ result[p].ok) =>
            \A i \in 1..Len(DeclaredSubObjects[frame[p].class_]) :
                LET sub == DeclaredSubObjects[frame[p].class_][i]
                    v == ValueAt(Obj(result[p].v.kw), PathKeys(sub.namespace))
                IN  (~sub.class_.list /\ v.k = "obj") =>
                        DOMAIN v.o \subseteq Accepts(sub.class_.c)

\* C5: when a declared sub-object path of a plain object type has a segment
\* that is absent from the parsed document, or that leads through something
\* that is not a mapping, the call raises (KeyError for an absent key,
\* TypeError for a non-mapping: the path-resolution failures) and returns no
\* instance.
C5_BrokenPathFails ==
    \A p \in Procs :
        ( /\ Done(p) /\ JsonCall(p)
          /\ frame[p].class_ \in PlainClasses
          /\ Parsed(p).ok
          /\ \E i \in 1..Len(DeclaredSubObjects[frame[p].class_]) :
                PathBroken(Parsed(p).v, PathKeys(DeclaredSubObjects[frame[p].class_][i].namespace)) ) =>
            /\ ~result[p].ok
            /\ result[p].exc \in {"KeyError", "TypeError"}
            /\ ~frame[p].init_args.ok

C5_Witness ==
    \E p \in Procs :
        /\ Done(p) /\ JsonCall(p)
        /\ frame[p].class_ = "Doc"
        /\ frame[p].json_string = "{\"owner\": {\"name\": \"a\"}}"
        /\ result[p] = Raise("KeyError")

\* C6: no result is returned when the parsed value's shape does not match the
\* target kind: a collection type needs a sequence, a plain object type a
\* mapping.
C6_ShapeMismatchFails ==
    \A p \in Procs :
        ( /\ Done(p) /\ JsonCall(p) /\ Parsed(p).ok
          /\ \/ frame[p].class_ \in CollectionClasses /\ Parsed(p).v.k # "arr"
             \/ frame[p].class_ \in PlainClasses /\ Parsed(p).v.k # "obj" ) =>
            ~result[p].ok

\* C7: the form deserializer passes only the keys that are constructor
\* parameters: a mapping with an unknown field still constructs the type, and
\* the call fails only when a required parameter is missing.
C7_FormFiltersUnknownFields ==
    \A p \in Procs :
        (Done(p) /\ FormCall(p)) =>
            LET raw == frame[p].raw
                class_ == frame[p].class_
                kept == (DOMAIN raw) \cap Accepts(class_)
            IN  IF Required(class_) \subseteq DOMAIN raw
                THEN result[p] = Ok(Instance(class_, [key \in kept |-> raw[key]]))
                ELSE ~result[p].ok

\* C8: an array whose element type is itself a collection type is processed
\* against that element type's own declared elements_class.
C8_NestedCollectionUsesOwnElementType ==
    \A p \in Procs :
        ( /\ Done(p) /\ JsonCall(p) /\ Parsed(p).ok
          /\ frame[p].class_ \in CollectionClasses
          /\ DeclaredElementsClass[frame[p].class_] \in CollectionClasses ) =>
            LET own == DeclaredElementsClass[DeclaredElementsClass[frame[p].class_]]
                elements == _deserialize_array(metadata, own, Parsed(p).v)
            IN  result[p] = IF elements.ok
                            THEN ConstructCollection(frame[p].class_, elements.v)
                            ELSE elements

C10_NoInterference ==
    /\ metadata = InitialMetadata(metadata.elements_class["SdkCollectionObject"])
    /\ \A p \in Procs :
          (Done(p) /\ JsonCall(p)) =>
              result[p] =
                  deserialize(InitialMetadata(metadata.elements_class["SdkCollectionObject"]),
                              frame[p].class_, frame[p].json_string)

C10_Witness ==
    \E p, q \in Procs :
        /\ p # q
        /\ Done(p) /\ JsonCall(p) /\ frame[p].class_ = "Order" /\ result[p].ok
        /\ pc[q] = "dict" /\ frame[q].class_ = "Order" /\ frame[q].i = 2
====
